---- MODULE Spec2Model ----
(***************************************************************************)
(* puzzlewikiserver: the four handlers of wikiserver.go (Load, Store,      *)
(* ListVersions, Delete) over the MongoDB collection "pages".              *)
(*                                                                         *)
(* A handler holds no state of its own: it connects, makes one call to     *)
(* the collection and disconnects.  The collection is the only shared      *)
(* state and each call to it is atomic, so a handler is one action on the  *)
(* collection; the concurrent specifications split it at the connection.   *)
(***************************************************************************)
EXTENDS Integers, Sequences, FiniteSets, TLC

\* ---------------------------------------------------------------- bounds

\* Modulus of the uint64 arithmetic of request.Last + 1, scaled down from 2^64.
UintMod == 8
\* The small values of request.Last a caller may send, 0..MaxLast, beside UintMod - 1.
MaxLast == 1
\* Concurrent callers 1..NumCallers.
NumCallers == 2
MaxClock == 1

\* ---------------------------------------------------------------- inputs

\* The page every request shape is sent to, and the page of the same ref in
\* another wiki, which is sent first versions only.
MainKey == <<1, "home">>
OtherKey == <<2, "home">>
Keys == {MainKey, OtherKey}
\* What an author sends: request.UserId, request.Text.
Edits == {[userId |-> 7, text |-> "A"], [userId |-> 8, text |-> "B"]}
\* request.Last: small values, and the largest uint64.
Lasts == (0..MaxLast) \cup {UintMod - 1}
\* request.Last sent to the other wiki's page.
LastsOf(k) == IF k = MainKey THEN Lasts ELSE {0}
\* request.Version of Load and Delete: 0, the versions a Store can create, and one beyond.
VersionsOf(k) == IF k = MainKey THEN 0..(MaxLast + 2) ELSE 0..1
\* Every value of the version field.
Uint == 0..(UintMod - 1)
Triples == Keys \X Uint
Callers == 1..NumCallers
\* A handler's run: no failure, mongo.Connect fails, the collection call fails.
Faults == {"none", "connect", "call"}

VARIABLES
    pages,   \* the documents of the collection "pages"
    clock,   \* the time (seconds) an inserted document's _id carries
    ret,     \* the call that returned last: request, response, fault met
    pc,      \* per caller: "idle", "connected", "loaded", "done"
    req,     \* per caller: the request of its call
    resp,    \* per caller: the response of its call
    life,    \* history, per triple: "never" stored, "stored", "deleted"
    stores,  \* history, per key: Stores that succeeded since fresh; -1 after a removal
    inOrder, \* history, per key: each Store that succeeded carried the highest version, and no removal
    start,   \* history: the collection when the race began
    conns,   \* per caller: the connections its call opened and closed
    seen     \* history, per writer: the collection when its Load read it

vars == <<pages, clock, ret, pc, req, resp, life, stores, inOrder, start, conns, seen>>

\* ---------------------------------------------------------------- messages

\* pb.WikiRequest, pb.ContentRequest, pb.VersionRequest: absent fields are zero.
Request(op, wikiId, ref, version, last, userId, text) ==
    [op |-> op, wikiId |-> wikiId, ref |-> ref, version |-> version,
     last |-> last, userId |-> userId, text |-> text]

NoRequest == Request("none", 0, "", 0, 0, 0, "")

\* pb.Content, pb.Response, pb.Versions, or (nil, errInternal).
Reply(err, success, version, text, createdAt, list) ==
    [err |-> err, success |-> success, version |-> version, text |-> text,
     createdAt |-> createdAt, list |-> list]

NoReply == Reply(FALSE, FALSE, 0, "", 0, <<>>)

errInternal == Reply(TRUE, FALSE, 0, "", 0, <<>>)

\* &pb.Response{Success: s}
Response(s) == Reply(FALSE, s, 0, "", 0, <<>>)

\* ---------------------------------------------------------------- collection

\* The documents matching the filter {wikiId, ref}.
Matching(coll, wikiId, ref) ==
    {d \in coll : d.wikiId = wikiId /\ d.ref = ref}

\* The documents matching the filter {wikiId, ref, version}.
MatchingVersion(coll, wikiId, ref, version) ==
    {d \in Matching(coll, wikiId, ref) : d.version = version}

\* A replace with upsert in the place of InsertOne: the document of a taken key
\* is replaced.
InsertOneUpsert(coll, page) ==
    [err |-> "nil",
     coll |-> (coll \ {d \in coll : d.wikiId = page.wikiId /\ d.ref = page.ref
                                      /\ d.version = page.version}) \cup {page}]

\* InsertOne on a collection that has no unique index: the insert always succeeds.
InsertOneNoIndex(coll, page) == [err |-> "nil", coll |-> coll \cup {page}]

\* collection.InsertOne under the unique index on (wikiId, ref, version) the
\* handler relies on: "dup" and no change when the key is taken.
InsertOne(coll, page) ==
    IF MatchingVersion(coll, page.wikiId, page.ref, page.version) # {}
    THEN [err |-> "dup", coll |-> coll]
    ELSE [err |-> "nil", coll |-> coll \cup {page}]

\* FindOne with the sort left out: any document of the key.
FindOneUnsorted(coll, wikiId, ref) == Matching(coll, wikiId, ref)

\* collection.FindOne sorted by descVersion: the documents it may return.
FindOneMaxVersion(coll, wikiId, ref) ==
    {d \in Matching(coll, wikiId, ref) :
        \A e \in Matching(coll, wikiId, ref) : e.version <= d.version}

\* collection.FindOne with the version in the filter: the documents it may return.
FindOneVersion(coll, wikiId, ref, version) ==
    MatchingVersion(coll, wikiId, ref, version)

\* DeleteMany with the version left out of the filter.
DeleteManyAnyVersion(coll, wikiId, ref, version) ==
    coll \ Matching(coll, wikiId, ref)

\* collection.DeleteMany with the filter {wikiId, ref, version}.
DeleteMany(coll, wikiId, ref, version) ==
    coll \ MatchingVersion(coll, wikiId, ref, version)

\* ---------------------------------------------------------------- handlers

\* The connections of a call that has not reached mongo.Connect.
NoConnection == [opened |-> 0, closed |-> 0]

\* mongo.Connect returned a client.
connected(cn) == [cn EXCEPT !.opened = @ + 1]

\* Disconnect called at the end of the path that returns a response, not deferred.
disconnectOnSuccess(cn, out) ==
    IF out.err THEN cn ELSE [cn EXCEPT !.closed = @ + 1]

\* defer mongoclient.Disconnect(client, logger): runs when the handler returns,
\* whatever it returns.
deferDisconnect(cn, out) == [cn EXCEPT !.closed = @ + 1]

\* logger.Error(mongoCallMsg, ...) is called: on the paths of a failed connect and
\* of a failed call, after the duplicate key and the missing document are set apart.
Logged(fault) == fault # "none"

\* The + 1 left out.
newVersionSame(last) == last

\* One version skipped.
newVersionSkips(last) == (last + 2) % UintMod

\* newVersion := request.Last + 1, in uint64.
newVersion(last) == (last + 1) % UintMod

\* The document without its author.
pageWithoutAuthor(r, now) ==
    [wikiId |-> r.wikiId, ref |-> r.ref, version |-> newVersion(r.last),
     userId |-> 0, text |-> r.text, createdAt |-> now]

\* The time of the _id counted down instead of up.
pageCountdown(r, now) ==
    [wikiId |-> r.wikiId, ref |-> r.ref, version |-> newVersion(r.last),
     userId |-> r.userId, text |-> r.text, createdAt |-> MaxClock - now]

\* The document Store inserts; createdAt is the time in the _id the driver adds.
page(r, now) ==
    [wikiId |-> r.wikiId, ref |-> r.ref, version |-> newVersion(r.last),
     userId |-> r.userId, text |-> r.text, createdAt |-> now]

\* A text field holding a BSON value that is no string (an int32), as a writer
\* other than Store may leave it.
NotAString == "int32:42"

\* page[textKey].(string): the value and whether the assertion holds.
AsString(v) == IF v = NotAString THEN [value |-> "", ok |-> FALSE]
               ELSE [value |-> v, ok |-> TRUE]

\* convertToContent that hands the text field over whatever its type.
convertToContentUntyped(d) ==
    Reply(FALSE, FALSE, d.version, d.text, d.createdAt, <<>>)

\* convertToContent of a document projected by contentFields: the ok of the
\* type assertion on the text is dropped, and there is no error to return.
convertToContent(d) ==
    Reply(FALSE, FALSE, d.version, AsString(d.text).value, d.createdAt, <<>>)

\* convertToVersion that leaves the author out.
convertToVersionAnonymous(d) == [number |-> d.version, userId |-> 0]

\* convertToVersion of a document projected by optsVersion.
convertToVersion(d) == [number |-> d.version, userId |-> d.userId]

\* The sequences that hold each element of S once: the orders a cursor may return.
RECURSIVE Orders(_)
Orders(S) ==
    IF S = {} THEN {<<>>}
    ELSE UNION {{<<x>> \o s : s \in Orders(S \ {x})} : x \in S}

\* mongoclient.ConvertSlice(results, convertToVersion)
ConvertSlice(results) == [i \in 1..Len(results) |-> convertToVersion(results[i])]

\* Load that never puts the version in the filter.
LoadIgnoresVersion(coll, r, fault) ==
    IF fault # "none" THEN {errInternal}
    ELSE IF FindOneMaxVersion(coll, r.wikiId, r.ref) = {} THEN {NoReply}
         ELSE {convertToContent(d) : d \in FindOneMaxVersion(coll, r.wikiId, r.ref)}

\* server.Load: the responses it may return.
Load(coll, r, fault) ==
    IF fault # "none" THEN {errInternal}
    ELSE LET found == IF r.version # 0
                      THEN FindOneVersion(coll, r.wikiId, r.ref, r.version)
                      ELSE FindOneMaxVersion(coll, r.wikiId, r.ref)
         IN  IF found = {} THEN {NoReply}
             ELSE {convertToContent(d) : d \in found}

\* Store that takes a duplicate key for a failure of the call.
StoreDupIsError(coll, r, now, fault) ==
    IF fault # "none" THEN [coll |-> coll, resp |-> errInternal]
    ELSE LET ins == InsertOne(coll, page(r, now))
         IN  IF ins.err = "dup"
             THEN [coll |-> ins.coll, resp |-> errInternal]
             ELSE [coll |-> ins.coll, resp |-> Response(TRUE)]

\* Store that reports a duplicate key as a success.
StoreDupIsSuccess(coll, r, now, fault) ==
    IF fault # "none" THEN [coll |-> coll, resp |-> errInternal]
    ELSE [coll |-> InsertOne(coll, page(r, now)).coll, resp |-> Response(TRUE)]

\* Store that replaces the document of a taken key before it reports the conflict.
StoreOverwrites(coll, r, now, fault) ==
    IF fault # "none" THEN [coll |-> coll, resp |-> errInternal]
    ELSE LET ins == InsertOne(coll, page(r, now))
         IN  IF ins.err = "dup"
             THEN [coll |-> DeleteMany(coll, r.wikiId, r.ref, newVersion(r.last))
                              \cup {page(r, now)},
                   resp |-> Response(FALSE)]
             ELSE [coll |-> ins.coll, resp |-> Response(TRUE)]

\* server.Store: the collection it leaves and the response it returns.
Store(coll, r, now, fault) ==
    IF fault # "none" THEN [coll |-> coll, resp |-> errInternal]
    ELSE LET ins == InsertOne(coll, page(r, now))
         IN  IF ins.err = "dup"
             THEN [coll |-> ins.coll, resp |-> Response(FALSE)]
             ELSE [coll |-> ins.coll, resp |-> Response(TRUE)]

\* ListVersions with the wikiId left out of the filter.
ListVersionsAnyWiki(coll, r, fault) ==
    IF fault # "none" THEN {errInternal}
    ELSE {Reply(FALSE, FALSE, 0, "", 0, ConvertSlice(results)) :
            results \in Orders({d \in coll : d.ref = r.ref})}

\* server.ListVersions: the responses it may return.
ListVersions(coll, r, fault) ==
    IF fault # "none" THEN {errInternal}
    ELSE {Reply(FALSE, FALSE, 0, "", 0, ConvertSlice(results)) :
            results \in Orders(Matching(coll, r.wikiId, r.ref))}

\* server.Delete: the collection it leaves and the response it returns.
Delete(coll, r, fault) ==
    IF fault # "none" THEN [coll |-> coll, resp |-> errInternal]
    ELSE [coll |-> DeleteMany(coll, r.wikiId, r.ref, r.version),
          resp |-> Response(TRUE)]

\* The handler a request is for: the collections it may leave with the
\* responses it may return.
Serve(coll, r, now, fault) ==
    CASE r.op = "Load" ->
            {[coll |-> coll, resp |-> o] : o \in Load(coll, r, fault)}
      [] r.op = "Store" -> {Store(coll, r, now, fault)}
      [] r.op = "ListVersions" ->
            {[coll |-> coll, resp |-> o] : o \in ListVersions(coll, r, fault)}
      [] r.op = "Delete" -> {Delete(coll, r, fault)}

\* ---------------------------------------------------------------- requests

LoadRequests ==
    UNION {{Request("Load", k[1], k[2], v, 0, 0, "") : v \in VersionsOf(k)} : k \in Keys}

StoreRequests ==
    UNION {{Request("Store", k[1], k[2], 0, l, e.userId, e.text) :
                l \in LastsOf(k), e \in Edits} : k \in Keys}

ListRequests ==
    {Request("ListVersions", k[1], k[2], 0, 0, 0, "") : k \in Keys}

DeleteRequests ==
    UNION {{Request("Delete", k[1], k[2], v, 0, 0, "") : v \in VersionsOf(k)} : k \in Keys}

KeyOf(r) == <<r.wikiId, r.ref>>

\* The highest version stored for a key, 0 when it has none.
MaxVersion(coll, k) ==
    IF Matching(coll, k[1], k[2]) = {} THEN 0
    ELSE CHOOSE v \in Uint :
            /\ \E d \in Matching(coll, k[1], k[2]) : d.version = v
            /\ \A d \in Matching(coll, k[1], k[2]) : d.version <= v

\* ---------------------------------------------------------------- Spec

Init ==
    /\ pages = {}
    /\ clock = 0
    /\ ret = [req |-> NoRequest, resp |-> NoReply, fault |-> "none", logged |-> Logged("none")]
    /\ conns = [c \in Callers |-> NoConnection]
    /\ seen = [c \in Callers |-> {}]
    /\ pc = [c \in Callers |-> "idle"]
    /\ req = [c \in Callers |-> NoRequest]
    /\ resp = [c \in Callers |-> NoReply]
    /\ life = [t \in Triples |-> "never"]
    /\ stores = [k \in Keys |-> 0]
    /\ inOrder = [k \in Keys |-> TRUE]
    /\ start = {}

\* One call of Load, from request to response.
CallLoad ==
    \E r \in LoadRequests, f \in Faults :
        \E out \in Load(pages, r, f) :
            /\ ret' = [req |-> r, resp |-> out, fault |-> f, logged |-> Logged(f)]
            /\ UNCHANGED <<pages, clock, pc, req, resp, life, stores, inOrder, start, conns, seen>>

\* One call of Store, from request to response.
CallStore ==
    \E r \in StoreRequests, f \in Faults :
        LET out == Store(pages, r, clock, f)
            k == KeyOf(r)
            t == <<k, newVersion(r.last)>>
            won == out.resp.success
        IN  /\ pages' = out.coll
            /\ ret' = [req |-> r, resp |-> out.resp, fault |-> f, logged |-> Logged(f)]
            /\ life' = IF won THEN [life EXCEPT ![t] = "stored"] ELSE life
            /\ stores' = IF won /\ stores[k] >= 0
                         THEN [stores EXCEPT ![k] = @ + 1] ELSE stores
            /\ inOrder' = IF won /\ r.last # MaxVersion(pages, k)
                          THEN [inOrder EXCEPT ![k] = FALSE] ELSE inOrder
            /\ UNCHANGED <<clock, pc, req, resp, start, conns, seen>>

\* One call of ListVersions, from request to response.
CallListVersions ==
    \E r \in ListRequests, f \in Faults :
        \E out \in ListVersions(pages, r, f) :
            /\ ret' = [req |-> r, resp |-> out, fault |-> f, logged |-> Logged(f)]
            /\ UNCHANGED <<pages, clock, pc, req, resp, life, stores, inOrder, start, conns, seen>>

\* One call of Delete, from request to response.
CallDelete ==
    \E r \in DeleteRequests, f \in Faults :
        LET out == Delete(pages, r, f)
            k == KeyOf(r)
            t == <<k, r.version>>
            removed == out.coll # pages
        IN  /\ pages' = out.coll
            /\ ret' = [req |-> r, resp |-> out.resp, fault |-> f, logged |-> Logged(f)]
            /\ life' = IF removed THEN [life EXCEPT ![t] = "deleted"] ELSE life
            /\ stores' = IF removed THEN [stores EXCEPT ![k] = -1] ELSE stores
            /\ inOrder' = IF removed THEN [inOrder EXCEPT ![k] = FALSE] ELSE inOrder
            /\ UNCHANGED <<clock, pc, req, resp, start, conns, seen>>

Next ==
    \/ CallLoad
    \/ CallStore
    \/ CallListVersions
    \/ CallDelete

Spec == Init /\ [][Next]_vars

\* ---------------------------------------------------------------- SpecClock

\* A second passes: the next _id the driver generates carries a later time.
Tick ==
    /\ clock < MaxClock
    /\ clock' = clock + 1
    /\ UNCHANGED <<pages, ret, pc, req, resp, life, stores, inOrder, start, conns, seen>>

\* One call of Store on the main page, at the time of the clock.
ClockStore ==
    \E l \in Lasts, e \in Edits :
        LET r == Request("Store", MainKey[1], MainKey[2], 0, l, e.userId, e.text)
            out == Store(pages, r, clock, "none")
        IN  /\ pages' = out.coll
            /\ ret' = [req |-> r, resp |-> out.resp, fault |-> "none", logged |-> Logged("none")]
            /\ UNCHANGED <<clock, pc, req, resp, life, stores, inOrder, start, conns, seen>>

\* One call of Delete on the main page.
ClockDelete ==
    \E v \in VersionsOf(MainKey) :
        LET r == Request("Delete", MainKey[1], MainKey[2], v, 0, 0, "")
            out == Delete(pages, r, "none")
        IN  /\ pages' = out.coll
            /\ ret' = [req |-> r, resp |-> out.resp, fault |-> "none", logged |-> Logged("none")]
            /\ UNCHANGED <<clock, pc, req, resp, life, stores, inOrder, start, conns, seen>>

NextClock ==
    \/ Tick
    \/ ClockStore
    \/ ClockDelete

SpecClock == Init /\ [][NextClock]_vars

\* ---------------------------------------------------------------- SpecRace

\* The collections Spec reaches (with the clock at 0): sets of documents a Store
\* inserts, no two with the same (wikiId, ref, version).
Collections ==
    {coll \in SUBSET {page(r, 0) : r \in StoreRequests} :
        \A d \in coll, e \in coll :
            (KeyOf(d) = KeyOf(e) /\ d.version = e.version) => d = e}

\* 1..n of the callers each hold a Store request for the same key and the same
\* last; the collection is any the program reaches.
InitRace ==
    /\ pages \in Collections
    /\ start = pages
    /\ clock = 0
    /\ ret = [req |-> NoRequest, resp |-> NoReply, fault |-> "none", logged |-> Logged("none")]
    /\ conns = [c \in Callers |-> NoConnection]
    /\ seen = [c \in Callers |-> {}]
    /\ resp = [c \in Callers |-> NoReply]
    /\ life = [t \in Triples |-> "never"]
    /\ stores = [k \in Keys |-> 0]
    /\ inOrder = [k \in Keys |-> TRUE]
    /\ \E n \in Callers, k \in Keys :
         \E l \in LastsOf(k) :
            /\ pc = [c \in Callers |-> IF c <= n THEN "idle" ELSE "out"]
            /\ req \in [Callers -> StoreRequests \cup {NoRequest}]
            /\ \A c \in Callers :
                 IF c <= n
                 THEN req[c].op = "Store" /\ KeyOf(req[c]) = k /\ req[c].last = l
                 ELSE req[c] = NoRequest

\* mongo.Connect succeeds: the caller is in the handler, before its collection call.
Connect(c) ==
    /\ pc[c] = "idle"
    /\ pc' = [pc EXCEPT ![c] = "connected"]
    /\ conns' = [conns EXCEPT ![c] = connected(NoConnection)]
    /\ UNCHANGED <<pages, clock, ret, req, resp, life, stores, inOrder, start, seen>>

\* The rest of Store: the insert, the disconnect, the response.
FinishStore(c) ==
    /\ pc[c] = "connected"
    /\ req[c].op = "Store"
    /\ LET out == Store(pages, req[c], clock, "none")
       IN  /\ pages' = out.coll
           /\ resp' = [resp EXCEPT ![c] = out.resp]
           /\ conns' = [conns EXCEPT ![c] = deferDisconnect(@, out.resp)]
    /\ pc' = [pc EXCEPT ![c] = "done"]
    /\ UNCHANGED <<clock, ret, req, life, stores, inOrder, start, seen>>

NextRace ==
    \E c \in Callers :
        \/ Connect(c)
        \/ FinishStore(c)

SpecRace == InitRace /\ [][NextRace]_vars

\* ---------------------------------------------------------------- SpecForeign

\* Documents of the main page written by another program than Store: the text
\* field holds no string.
ForeignPages ==
    {[wikiId |-> MainKey[1], ref |-> MainKey[2], version |-> v, userId |-> 9,
      text |-> NotAString, createdAt |-> 0] : v \in 1..(MaxLast + 1)}

\* The collection holds documents of Store and at least one foreign document,
\* no two with the same (wikiId, ref, version).
InitForeign ==
    /\ \E coll \in Collections, F \in (SUBSET ForeignPages) \ {{}} :
          /\ \A d \in coll, e \in F : ~(KeyOf(d) = KeyOf(e) /\ d.version = e.version)
          /\ pages = coll \cup F
    /\ start = pages
    /\ clock = 0
    /\ ret = [req |-> NoRequest, resp |-> NoReply, fault |-> "none", logged |-> Logged("none")]
    /\ conns = [c \in Callers |-> NoConnection]
    /\ seen = [c \in Callers |-> {}]
    /\ pc = [c \in Callers |-> "out"]
    /\ req = [c \in Callers |-> NoRequest]
    /\ resp = [c \in Callers |-> NoReply]
    /\ life = [t \in Triples |-> "never"]
    /\ stores = [k \in Keys |-> 0]
    /\ inOrder = [k \in Keys |-> TRUE]

NextForeign ==
    \/ CallLoad
    \/ CallListVersions

SpecForeign == InitForeign /\ [][NextForeign]_vars

\* ---------------------------------------------------------------- SpecConn

\* The requests of the calls that run side by side, one of each handler and a
\* Store of each edit, on the main page.
ConnRequests ==
    {Request("Load", MainKey[1], MainKey[2], 0, 0, 0, ""),
     Request("ListVersions", MainKey[1], MainKey[2], 0, 0, 0, ""),
     Request("Delete", MainKey[1], MainKey[2], 1, 0, 0, "")}
    \cup {Request("Store", MainKey[1], MainKey[2], 0, 0, e.userId, e.text) : e \in Edits}

\* Each caller holds the request of the call it is about to make.
InitConn ==
    /\ pages = {}
    /\ start = {}
    /\ clock = 0
    /\ ret = [req |-> NoRequest, resp |-> NoReply, fault |-> "none", logged |-> Logged("none")]
    /\ conns = [c \in Callers |-> NoConnection]
    /\ seen = [c \in Callers |-> {}]
    /\ pc = [c \in Callers |-> "idle"]
    /\ req \in [Callers -> ConnRequests]
    /\ resp = [c \in Callers |-> NoReply]
    /\ life = [t \in Triples |-> "never"]
    /\ stores = [k \in Keys |-> 0]
    /\ inOrder = [k \in Keys |-> TRUE]

\* mongo.Connect fails: the handler returns errInternal, having no client to close.
ConnectFails(c) ==
    /\ pc[c] = "idle"
    /\ pc' = [pc EXCEPT ![c] = "done"]
    /\ \E out \in Serve(pages, req[c], clock, "connect") :
          resp' = [resp EXCEPT ![c] = out.resp]
    /\ UNCHANGED <<pages, clock, ret, req, life, stores, inOrder, start, conns, seen>>

\* The rest of a handler once connected: the collection call, which may fail,
\* the deferred disconnect, the response.
Finish(c) ==
    /\ pc[c] = "connected"
    /\ \E f \in Faults \ {"connect"} :
          \E out \in Serve(pages, req[c], clock, f) :
             /\ pages' = out.coll
             /\ resp' = [resp EXCEPT ![c] = out.resp]
             /\ conns' = [conns EXCEPT ![c] = deferDisconnect(@, out.resp)]
    /\ pc' = [pc EXCEPT ![c] = "done"]
    /\ UNCHANGED <<clock, ret, req, life, stores, inOrder, start, seen>>

NextConn ==
    \E c \in Callers :
        \/ Connect(c)
        \/ ConnectFails(c)
        \/ Finish(c)

SpecConn == InitConn /\ [][NextConn]_vars

\* ---------------------------------------------------------------- SpecProtocol

\* The edit of a writer: it signs with its own user id.
WriterEdit(c) == [userId |-> c, text |-> IF c % 2 = 1 THEN "A" ELSE "B"]

\* A writer reads the latest version of a page: Load with no version.
WriterLoad(c) ==
    /\ pc[c] = "idle"
    /\ \E k \in Keys :
         LET r == Request("Load", k[1], k[2], 0, 0, 0, "")
         IN  \E out \in Load(pages, r, "none") :
                /\ req' = [req EXCEPT ![c] = r]
                /\ resp' = [resp EXCEPT ![c] = out]
    /\ pc' = [pc EXCEPT ![c] = "loaded"]
    /\ UNCHANGED <<pages, clock, ret, life, stores, inOrder, start, conns, seen>>

\* The writer stores its edit with last = the version it read; it is done when
\* the Store succeeds and starts over when it conflicts.
WriterStore(c) ==
    /\ pc[c] = "loaded"
    /\ resp[c].version \in Lasts
    /\ LET r == Request("Store", req[c].wikiId, req[c].ref, 0, resp[c].version,
                        WriterEdit(c).userId, WriterEdit(c).text)
           out == Store(pages, r, clock, "none")
       IN    /\ pages' = out.coll
             /\ req' = [req EXCEPT ![c] = r]
             /\ resp' = [resp EXCEPT ![c] = out.resp]
             /\ pc' = [pc EXCEPT ![c] = IF out.resp.success THEN "done" ELSE "idle"]
    /\ UNCHANGED <<clock, ret, life, stores, inOrder, start, conns, seen>>

\* A writer that is done has another edit to publish.
WriterAgain(c) ==
    /\ pc[c] = "done"
    /\ pc' = [pc EXCEPT ![c] = "idle"]
    /\ UNCHANGED <<pages, clock, ret, req, resp, life, stores, inOrder, start, conns, seen>>

NextProtocol ==
    \E c \in Callers :
        \/ WriterLoad(c)
        \/ WriterStore(c)
        \/ WriterAgain(c)

SpecProtocol == Init /\ [][NextProtocol]_vars

\* ---------------------------------------------------------------- SpecRetry

\* Some of the callers are the writers of one fresh page, each with one edit to
\* publish and about to read the page.
InitRetry ==
    /\ pages = {}
    /\ start = {}
    /\ clock = 0
    /\ ret = [req |-> NoRequest, resp |-> NoReply, fault |-> "none", logged |-> Logged("none")]
    /\ conns = [c \in Callers |-> NoConnection]
    /\ seen = [c \in Callers |-> {}]
    /\ resp = [c \in Callers |-> NoReply]
    /\ life = [t \in Triples |-> "never"]
    /\ stores = [k \in Keys |-> 0]
    /\ inOrder = [k \in Keys |-> TRUE]
    /\ \E W \in (SUBSET Callers) \ {{}}, k \in Keys :
          /\ pc = [c \in Callers |-> IF c \in W THEN "idle" ELSE "out"]
          /\ req = [c \in Callers |->
                      IF c \in W THEN Request("Load", k[1], k[2], 0, 0, 0, "")
                      ELSE NoRequest]

\* A writer reads the latest version of its page, the first time and again
\* after each conflict.
RetryLoad(c) ==
    /\ pc[c] = "idle"
    /\ LET r == Request("Load", req[c].wikiId, req[c].ref, 0, 0, 0, "")
       IN  \E out \in Load(pages, r, "none") :
              /\ req' = [req EXCEPT ![c] = r]
              /\ resp' = [resp EXCEPT ![c] = out]
    /\ pc' = [pc EXCEPT ![c] = "loaded"]
    /\ seen' = [seen EXCEPT ![c] = pages]
    /\ UNCHANGED <<pages, clock, ret, life, stores, inOrder, start, conns>>

NextRetry ==
    \/ Tick
    \/ \E c \in Callers :
          \/ RetryLoad(c)
          \/ WriterStore(c)

\* Each writer keeps taking its steps, whatever the time they take.
SpecRetry ==
    /\ InitRetry
    /\ [][NextRetry]_vars
    /\ \A c \in Callers : WF_vars(RetryLoad(c)) /\ WF_vars(WriterStore(c))

\* ---------------------------------------------------------------- SpecWrapped

\* The main page after Store(last = the highest value but one) and Store(last =
\* the highest value): it holds the highest version and version 0.
WrappedPages ==
    {page(Request("Store", MainKey[1], MainKey[2], 0, l, 7, "A"), 0) :
        l \in {UintMod - 2, UintMod - 1}}

\* Each caller is a writer of that page or of the fresh page of the other wiki,
\* with one edit to publish and about to read its page.
InitWrapped ==
    /\ pages = WrappedPages
    /\ start = pages
    /\ clock = 0
    /\ ret = [req |-> NoRequest, resp |-> NoReply, fault |-> "none", logged |-> Logged("none")]
    /\ conns = [c \in Callers |-> NoConnection]
    /\ seen = [c \in Callers |-> {}]
    /\ pc = [c \in Callers |-> "idle"]
    /\ req \in [Callers -> {Request("Load", k[1], k[2], 0, 0, 0, "") : k \in Keys}]
    /\ resp = [c \in Callers |-> NoReply]
    /\ life = [t \in Triples |-> "never"]
    /\ stores = [k \in Keys |-> 0]
    /\ inOrder = [k \in Keys |-> TRUE]

SpecWrapped == InitWrapped /\ [][NextRetry]_vars

\* ---------------------------------------------------------------- claims

\* The step is a call of the handler op that met no backend failure.
Now(op) == ret'.req.op = op /\ ret'.fault = "none"

\* last + 1 in the width of the version field.
Succ(last) == (last + 1) % UintMod

\* The version numbers of a ListVersions response.
Numbers(list) == {list[i].number : i \in 1..Len(list)}

\* The callers of the race, those that returned success and those that returned a conflict.
Racers == {c \in Callers : pc[c] # "out"}
Won == {c \in Racers : pc[c] = "done" /\ resp[c] = Response(TRUE)}
Lost == {c \in Racers : pc[c] = "done" /\ resp[c] = Response(FALSE)}
RaceOver == \A c \in Racers : pc[c] = "done"
\* The documents of a collection at the key the race is for.
RaceTarget(coll) ==
    MatchingVersion(coll, req[1].wikiId, req[1].ref, Succ(req[1].last))

\* C1 as stated: when N concurrent Store calls with the same key and the same
\* last = v have all returned, exactly one returned success, the other N-1
\* returned a conflict, and one record with version v+1 remains for the key.
C1_Original ==
    RaceOver =>
        /\ Cardinality(Won) = 1
        /\ Cardinality(Lost) = Cardinality(Racers) - 1
        /\ Cardinality(RaceTarget(pages)) = 1

\* C1 amended: the same, provided no record (wikiId, ref, v+1) existed when the
\* calls began; the record that remains is the winner's.
C1_Uniqueness ==
    (RaceOver /\ RaceTarget(start) = {}) =>
        /\ Cardinality(Won) = 1
        /\ Cardinality(Lost) = Cardinality(Racers) - 1
        /\ \E w \in Won :
             RaceTarget(pages) = {page(req[w], 0)}
        /\ pages \ RaceTarget(pages) = start

\* C1, reached: two or more racers on a free triple have all returned, one won, and a loser's text differs from the record's.
C1_Witness ==
    /\ RaceOver
    /\ RaceTarget(start) = {}
    /\ Cardinality(Racers) >= 2
    /\ Cardinality(Won) = 1
    /\ \E c \in Lost, d \in RaceTarget(pages) : req[c].text # d.text

\* The triple a Store request targets.
TargetOf(r) == <<KeyOf(r), Succ(r.last)>>

\* C2 as stated: over any execution of Store, Load, ListVersions and Delete
\* calls, a Store returns success only for a triple no Store succeeded for before.
C2_Original ==
    [][(ret'.req.op = "Store" /\ ret'.resp.success)
          => life[TargetOf(ret'.req)] = "never"]_vars

\* C2 amended: a Store returns success only for a triple that no Store succeeded
\* for before, or whose record a Delete naming it has removed since: between two
\* successes for the same triple lies a Delete of that triple.
C2_OnceUntilDeleted ==
    [][(ret'.req.op = "Store" /\ ret'.resp.success)
          => life[TargetOf(ret'.req)] \in {"never", "deleted"}]_vars

\* C2, reached: a Store on a triple that is stored was just refused.
C2_Witness ==
    /\ ret.req.op = "Store"
    /\ ret.fault = "none"
    /\ ~ret.resp.success
    /\ life[TargetOf(ret.req)] = "stored"

\* The call that returned last is a Store that succeeded, and the step is a
\* Load of the latest version of the same key.
LoadAfterStore ==
    /\ ret.req.op = "Store"
    /\ ret.resp.success
    /\ Now("Load")
    /\ ret'.req.version = 0
    /\ KeyOf(ret'.req) = KeyOf(ret.req)

\* C3 as stated (for a last whose successor does not wrap): after a Store with
\* last = v returned success, the next Load with no version returns version v+1.
C3_Original ==
    [][(LoadAfterStore /\ ret.req.last < UintMod - 1)
          => ret'.resp.version = ret.req.last + 1]_vars

\* C3 amended: after a Store with last = v returned success, the Load with no
\* version executed next returns version v+1 and the text stored, provided no
\* record of the key has a version above v+1.
C3_MonotonicAppend ==
    [][(/\ LoadAfterStore
        /\ \A d \in Matching(pages, ret.req.wikiId, ret.req.ref) :
              d.version <= Succ(ret.req.last))
          => /\ ret'.resp.version = Succ(ret.req.last)
             /\ ret'.resp.text = ret.req.text
             /\ ~ret'.resp.err]_vars

\* C3, reached: after two Stores in order the Load of the latest version returned version 2.
C3_Witness ==
    /\ ret.req.op = "Load"
    /\ ret.req.version = 0
    /\ ret.fault = "none"
    /\ inOrder[KeyOf(ret.req)]
    /\ stores[KeyOf(ret.req)] = 2
    /\ ret.resp.version = 2

\* C4 as stated: after K Store calls returned success on a fresh key (no Delete
\* removed a record of it, and no version wrapped to 0), ListVersions returns
\* exactly K entries and their version numbers are 1..K.
C4_Original ==
    [][(/\ Now("ListVersions")
        /\ stores[KeyOf(ret'.req)] >= 0
        /\ MatchingVersion(pages, ret'.req.wikiId, ret'.req.ref, 0) = {})
          => /\ Len(ret'.resp.list) = stores[KeyOf(ret'.req)]
             /\ Numbers(ret'.resp.list) = 1..stores[KeyOf(ret'.req)]]_vars

\* C4 amended: the same, provided each of the K Stores carried as last the
\* highest version stored for the key at that time (0 when it had none).
C4_NoGapHistory ==
    [][(/\ Now("ListVersions")
        /\ stores[KeyOf(ret'.req)] >= 0
        /\ inOrder[KeyOf(ret'.req)])
          => /\ Len(ret'.resp.list) = stores[KeyOf(ret'.req)]
             /\ Numbers(ret'.resp.list) = 1..stores[KeyOf(ret'.req)]]_vars

\* C4, reached: after two Stores in order ListVersions returned two entries, versions 1 and 2.
C4_Witness ==
    /\ ret.req.op = "ListVersions"
    /\ ret.fault = "none"
    /\ inOrder[KeyOf(ret.req)]
    /\ stores[KeyOf(ret.req)] = 2
    /\ Len(ret.resp.list) = 2
    /\ Numbers(ret.resp.list) = {1, 2}

\* C5: when every writer follows the protocol (Load latest, Store with last =
\* the version loaded, retry on conflict), the versions stored for each key are
\* exactly 1..maxVersion, one record each, in every reachable state.
C5_NoHoles ==
    \A k \in Keys :
        /\ {d.version : d \in Matching(pages, k[1], k[2])} = 1..MaxVersion(pages, k)
        /\ Cardinality(Matching(pages, k[1], k[2])) = MaxVersion(pages, k)

\* C5, reached: a writer's Store met a conflict while the key holds every version the bounds allow.
C5_Witness ==
    \E c \in Callers :
        /\ pc[c] = "idle"
        /\ req[c].op = "Store"
        /\ resp[c] = Response(FALSE)
        /\ MaxVersion(pages, KeyOf(req[c])) = MaxLast + 1

\* The documents at the triple the Store of this step targets, before the step.
Taken == MatchingVersion(pages, ret'.req.wikiId, ret'.req.ref, Succ(ret'.req.last))

\* C6: a Store issued while a record (wikiId, ref, last+1) exists returns
\* success=false with no error and leaves the stored records unchanged.
C6_ConflictNoOp ==
    [][(Now("Store") /\ Taken # {})
          => /\ ret'.resp = Response(FALSE)
             /\ pages' = pages]_vars

\* C6, reached: a Store just met a conflict with a record of another author and text.
C6_Witness ==
    /\ ret.req.op = "Store"
    /\ ret.fault = "none"
    /\ ret.resp = Response(FALSE)
    /\ \E d \in MatchingVersion(pages, ret.req.wikiId, ret.req.ref, Succ(ret.req.last)) :
         d.text # ret.req.text /\ d.userId # ret.req.userId

\* C7: a Store issued while no record (wikiId, ref, last+1) exists, the backend
\* not failing, returns success=true and adds exactly one record, with key
\* (wikiId, ref, last+1) and the userId and text of the request.
C7_StoreCreates ==
    [][(Now("Store") /\ Taken = {})
          => /\ ret'.resp = Response(TRUE)
             /\ \E d \in pages' :
                  /\ d \notin pages
                  /\ pages' = pages \cup {d}
                  /\ d.wikiId = ret'.req.wikiId
                  /\ d.ref = ret'.req.ref
                  /\ d.version = Succ(ret'.req.last)
                  /\ d.userId = ret'.req.userId
                  /\ d.text = ret'.req.text]_vars

\* C7, reached: a Store just succeeded on a collection that now holds two records or more, its record among them.
C7_Witness ==
    /\ ret.req.op = "Store"
    /\ ret.resp = Response(TRUE)
    /\ Cardinality(pages) >= 2
    /\ \E d \in pages :
         /\ KeyOf(d) = KeyOf(ret.req)
         /\ d.version = Succ(ret.req.last)
         /\ d.text = ret.req.text

\* C8: Load with version omitted or zero returns the version and the text of
\* the record with the highest version among those stored for the key, when
\* the key has a record.
C8_LatestIsMax ==
    [][(/\ Now("Load")
        /\ ret'.req.version = 0
        /\ Matching(pages, ret'.req.wikiId, ret'.req.ref) # {})
          => \E d \in Matching(pages, ret'.req.wikiId, ret'.req.ref) :
                /\ \A e \in Matching(pages, ret'.req.wikiId, ret'.req.ref) :
                      e.version <= d.version
                /\ ret'.resp.version = d.version
                /\ ret'.resp.text = d.text
                /\ ~ret'.resp.err]_vars

\* C8, reached: a Load of the latest version returned the highest of two or more versions after version 1 was deleted.
C8_Witness ==
    /\ ret.req.op = "Load"
    /\ ret.req.version = 0
    /\ ret.fault = "none"
    /\ Cardinality(Matching(pages, ret.req.wikiId, ret.req.ref)) >= 2
    /\ life[<<KeyOf(ret.req), 1>>] = "deleted"
    /\ ret.resp.version = MaxVersion(pages, KeyOf(ret.req))

\* C9: Load on a key that holds no record, and Load with a nonzero version for
\* which the key holds no record, return the empty content (version 0, empty
\* text) and no error.
C9_SentinelOnAbsence ==
    [][(/\ Now("Load")
        /\ \/ Matching(pages, ret'.req.wikiId, ret'.req.ref) = {}
           \/ /\ ret'.req.version # 0
              /\ MatchingVersion(pages, ret'.req.wikiId, ret'.req.ref,
                                 ret'.req.version) = {})
          => ret'.resp = NoReply]_vars

\* C9, reached: a Load of a missing nonzero version of a page that has records returned the empty content.
C9_Witness ==
    /\ ret.req.op = "Load"
    /\ ret.req.version # 0
    /\ ret.fault = "none"
    /\ Matching(pages, ret.req.wikiId, ret.req.ref) # {}
    /\ MatchingVersion(pages, ret.req.wikiId, ret.req.ref, ret.req.version) = {}
    /\ ret.resp = NoReply

\* The documents the Delete of this step names, before the step.
Named == MatchingVersion(pages, ret'.req.wikiId, ret'.req.ref, ret'.req.version)

\* The Load a caller sends for the version the Delete of this step names.
LoadOfDeleted ==
    Request("Load", ret'.req.wikiId, ret'.req.ref, ret'.req.version, 0, 0, "")

\* C10: Delete returns success=true whether or not a record matches; with none
\* the stored records are unchanged; with one it is removed and a Load for that
\* exact version issued right after returns the sentinel (version 0); the same
\* Delete applied again changes nothing.
C10_IdempotentDelete ==
    [][Now("Delete")
          => /\ ret'.resp = Response(TRUE)
             /\ Named = {} => pages' = pages
             /\ Named # {} =>
                  /\ pages' = pages \ Named
                  /\ Load(pages', LoadOfDeleted, "none") = {NoReply}
             /\ Delete(pages', ret'.req, "none").coll = pages']_vars

\* C10 where it holds: the same for every Delete issued while the key holds no
\* record of version 0 (the version a Store with the largest last creates).
C10_WithoutVersionZero ==
    [][(/\ Now("Delete")
        /\ MatchingVersion(pages, ret'.req.wikiId, ret'.req.ref, 0) = {})
          => /\ ret'.resp = Response(TRUE)
             /\ Named = {} => pages' = pages
             /\ Named # {} =>
                  /\ pages' = pages \ Named
                  /\ Load(pages', LoadOfDeleted, "none") = {NoReply}
             /\ Delete(pages', ret'.req, "none").coll = pages']_vars

\* C11: every stored record has a version >= 1: for every last of the field's
\* range a Store that succeeds creates a record whose version is above last, so
\* no record of version 0 is ever created.
C11_PositiveVersions ==
    /\ \A d \in pages : d.version >= 1
    /\ (ret.req.op = "Store" /\ ret.resp.success) =>
          \E d \in Matching(pages, ret.req.wikiId, ret.req.ref) :
              d.version > ret.req.last

\* createdAt does not decrease as the version grows, among the documents of one key.
Monotone(coll, k) ==
    \A d \in Matching(coll, k[1], k[2]), e \in Matching(coll, k[1], k[2]) :
        d.version < e.version => d.createdAt <= e.createdAt

LoadOfUndecodable(d) ==
    /\ ret.req.op = "Load" /\ ret.fault = "none"
    /\ d \in Matching(pages, ret.req.wikiId, ret.req.ref)
    /\ ~AsString(d.text).ok
    /\ \/ ret.req.version = d.version
       \/ ret.req.version = 0 /\ d.version = MaxVersion(pages, KeyOf(ret.req))

Open(c) == conns[c].opened - conns[c].closed

\* C15: a call opens one connection of its own and, once it has, closes it
\* exactly once before it returns, whatever it returns; a call whose connect
\* failed opened none; when no call is in flight no connection is open.
C15_ConnectionReleased ==
    /\ \A c \in Callers :
          /\ pc[c] = "idle" => conns[c] = NoConnection
          /\ pc[c] = "connected" => conns[c] = [opened |-> 1, closed |-> 0]
          /\ pc[c] = "done" =>
                /\ conns[c] \in {NoConnection, [opened |-> 1, closed |-> 1]}
                /\ ~resp[c].err => conns[c].opened = 1
    /\ (\A c \in Callers : pc[c] # "connected") => \A c \in Callers : Open(c) = 0

\* C15, reached: every call has returned, one of them with errInternal from a
\* collection call that failed after the connect, and the page holds a record.
C15_Witness ==
    /\ \A c \in Callers : pc[c] = "done"
    /\ \E c \in Callers : resp[c] = errInternal /\ conns[c].closed = 1
    /\ pages # {}

\* The last call is a ListVersions that met no backend failure.
Listed == ret.req.op = "ListVersions" /\ ret.fault = "none"

\* C16: ListVersions returns one (version, userId) entry for each record stored
\* for (wikiId, ref), carrying the record's version and the userId its Store
\* gave it, and no other entry: none of another key, and the empty sequence
\* when the key has no record.
C16_OneEntryPerRecord ==
    Listed =>
        LET list == ret.resp.list
            docs == Matching(pages, ret.req.wikiId, ret.req.ref)
        IN  /\ ~ret.resp.err
            /\ Len(list) = Cardinality(docs)
            /\ \A d \in docs : \E i \in 1..Len(list) :
                  list[i] = [number |-> d.version, userId |-> d.userId]
            /\ \A i \in 1..Len(list) : \E d \in docs :
                  list[i] = [number |-> d.version, userId |-> d.userId]
            /\ \A d \in docs : d.userId \in {e.userId : e \in Edits}

\* C16, reached: ListVersions has returned two entries of different authors
\* while the same ref of the other wiki holds a record too.
C16_Witness ==
    /\ Listed
    /\ Len(ret.resp.list) = 2
    /\ ret.resp.list[1].userId # ret.resp.list[2].userId
    /\ \E d \in pages : KeyOf(d) # KeyOf(ret.req)

\* C17: no call changes the userId or the text of a record that is stored
\* before and after it, and a Load with an explicit version v (v # 0) of a key
\* that holds version v returns version v and the text of that record.
C17_Immutable ==
    [][/\ \A d \in pages, e \in pages' :
             (KeyOf(d) = KeyOf(e) /\ d.version = e.version)
                 => (d.userId = e.userId /\ d.text = e.text)
       /\ (Now("Load") /\ ret'.req.version # 0) =>
             \A d \in MatchingVersion(pages, ret'.req.wikiId, ret'.req.ref,
                                      ret'.req.version) :
                 /\ ~ret'.resp.err
                 /\ ret'.resp.version = d.version
                 /\ ret'.resp.text = d.text]_vars

\* C17, reached: a Load by version has returned the text of version 1 while a
\* higher version of the page holds the other text.
C17_Witness ==
    /\ ret.req.op = "Load" /\ ret.fault = "none" /\ ret.req.version = 1
    /\ \E d \in pages : /\ KeyOf(d) = KeyOf(ret.req) /\ d.version = 1
                        /\ ret.resp.text = d.text /\ ret.resp.version = 1
    /\ \E d \in pages : KeyOf(d) = KeyOf(ret.req) /\ d.version > 1
                        /\ d.text # ret.resp.text

\* The documents a step adds to the collection or removes from it.
Touched == (pages' \ pages) \cup (pages \ pages')

\* C18: a Load and a ListVersions leave every record as it is; a Store adds or
\* removes no record other than (wikiId, ref, last+1) and a Delete none other
\* than (wikiId, ref, version): the other versions of the key and every other
\* key, the same ref in another wiki among them, are unchanged.
C18_Frame ==
    [][/\ ret'.req.op \in {"Load", "ListVersions"} => Touched = {}
       /\ ret'.req.op = "Store" =>
             \A d \in Touched : <<KeyOf(d), d.version>> = TargetOf(ret'.req)
       /\ ret'.req.op = "Delete" =>
             \A d \in Touched :
                 <<KeyOf(d), d.version>> = <<KeyOf(ret'.req), ret'.req.version>>]_vars

\* C18, reached: a Delete has removed version 1 of a page whose version 2 is
\* still stored, as is a record of the same ref in the other wiki.
C18_Witness ==
    /\ ret.req.op = "Delete" /\ ret.fault = "none" /\ ret.req.version = 1
    /\ life[<<KeyOf(ret.req), 1>>] = "deleted"
    /\ MatchingVersion(pages, ret.req.wikiId, ret.req.ref, 1) = {}
    /\ MatchingVersion(pages, ret.req.wikiId, ret.req.ref, 2) # {}
    /\ \E d \in pages : d.ref = ret.req.ref /\ d.wikiId # ret.req.wikiId

\* The triples of the documents of a collection.
TriplesOf(coll) == {<<KeyOf(d), d.version>> : d \in coll}

\* The Store of writer c that followed its Load has returned a conflict.
Refused(c) ==
    pc[c] = "idle" /\ req[c].op = "Store" /\ resp[c] = Response(FALSE)

Published ==
    /\ \A c \in Racers : pc[c] = "done" /\ resp[c] = Response(TRUE)
    /\ {d.version : d \in pages} = 1..Cardinality(Racers)
    /\ Cardinality(pages) = Cardinality(Racers)
    /\ \A c \in Racers : \E d \in pages : d.userId = WriterEdit(c).userId

\* C20: N writers of one fresh page, each publishing one edit by Load latest,
\* Store at last+1 and again on a conflict, with no Delete, no backend failure
\* and each writer's steps weakly fair: every writer eventually gets
\* success=true, and the versions stored in the end are 1..N, each of another
\* writer.
C20_EventualSuccess == <>[]Published

\* C20, reached: all the writers have published, the last of them having read
\* the page when it held every other writer's version.
C20_Witness ==
    /\ Cardinality(Racers) = NumCallers
    /\ Published
    /\ \E c \in Racers : Cardinality(seen[c]) = NumCallers - 1

====
